---- MODULE Spec2Model ----
(***************************************************************************)
(* poly-trader: the signed /trade webhook of src/worker.js (and its near   *)
(* duplicate src/unnamed/part_000).  One request is followed from the      *)
(* fetch handler through handleTrade; every await on a collaborator        *)
(* (request.text, crypto.subtle, the Gamma lookup, createOrDeriveApiKey,   *)
(* place) is a step, and the collaborator's outcome is chosen there.       *)
(*                                                                         *)
(* JavaScript numbers are modelled by exact rationals n/d extended with    *)
(* NaN (0/0), +Infinity (1/0) and -Infinity (-1/0); rounding of IEEE       *)
(* doubles and the sign of zero are not modelled.                          *)
(***************************************************************************)
EXTENDS Integers, Sequences, FiniteSets, TLC

(***************************************************************************)
(* Numbers                                                                 *)
(***************************************************************************)
RECURSIVE Gcd(_, _)
Gcd(a, b) == IF b = 0 THEN a ELSE Gcd(b, a % b)

Abs(x) == IF x < 0 THEN -x ELSE x

Sgn(x) == IF x < 0 THEN -1 ELSE IF x > 0 THEN 1 ELSE 0

\* n/d in lowest terms with d > 0; d = 0 encodes NaN (n = 0) and +-Infinity (n = +-1).
Q(n, d) ==
    IF d = 0 THEN [n |-> Sgn(n), d |-> 0]
    ELSE LET g == Gcd(Abs(n), Abs(d))
         IN  [n |-> (Sgn(d) * n) \div g, d |-> Abs(d) \div g]

NaN == [n |-> 0, d |-> 0]

IsNaN(x) == x.d = 0 /\ x.n = 0

\* Number.isFinite
IsFinite(x) == x.d # 0

IsZero(x) == x.d # 0 /\ x.n = 0

\* a < b on numbers; every comparison with NaN is false
NumLess(a, b) ==
    /\ ~IsNaN(a)
    /\ ~IsNaN(b)
    /\ IF a.d = 0 /\ b.d = 0 THEN a.n < b.n
       ELSE IF a.d = 0 THEN a.n < 0
       ELSE IF b.d = 0 THEN b.n > 0
       ELSE a.n * b.d < b.n * a.d

\* a + b
NumAdd(a, b) ==
    IF IsNaN(a) \/ IsNaN(b) THEN NaN
    ELSE IF a.d = 0 /\ b.d = 0 THEN (IF a.n = b.n THEN a ELSE NaN)
    ELSE IF a.d = 0 THEN a
    ELSE IF b.d = 0 THEN b
    ELSE Q(a.n * b.d + b.n * a.d, a.d * b.d)

\* a * b
NumMul(a, b) ==
    IF IsNaN(a) \/ IsNaN(b) THEN NaN
    ELSE IF a.d = 0 \/ b.d = 0 THEN Q(Sgn(a.n) * Sgn(b.n), 0)
    ELSE Q(a.n * b.n, a.d * b.d)

\* a / b
NumDiv(a, b) ==
    IF IsNaN(a) \/ IsNaN(b) THEN NaN
    ELSE IF a.d = 0 /\ b.d = 0 THEN NaN
    ELSE IF a.d = 0 THEN Q(a.n * (IF b.n < 0 THEN -1 ELSE 1), 0)
    ELSE IF b.d = 0 THEN Q(0, 1)
    ELSE Q(a.n * b.d, a.d * b.n)

\* Math.min / Math.max on two arguments
MathMin(a, b) == IF IsNaN(a) \/ IsNaN(b) THEN NaN ELSE IF NumLess(b, a) THEN b ELSE a

MathMax(a, b) == IF IsNaN(a) \/ IsNaN(b) THEN NaN ELSE IF NumLess(a, b) THEN b ELSE a

(***************************************************************************)
(* JavaScript values: [t, q, s] with t the type tag, q the number (or the  *)
(* truth value of a boolean as 1/0), s the string.                         *)
(***************************************************************************)
JUndef == [t |-> "undefined", q |-> NaN, s |-> ""]

JNull == [t |-> "null", q |-> NaN, s |-> ""]

JNum(n, d) == [t |-> "number", q |-> Q(n, d), s |-> ""]

JStr(str) == [t |-> "string", q |-> NaN, s |-> str]

JBool(b) == [t |-> "boolean", q |-> Q(IF b THEN 1 ELSE 0, 1), s |-> ""]

\* ToBoolean: what `!v` and `v || w` test
Truthy(v) ==
    CASE v.t = "undefined" -> FALSE
      [] v.t = "null" -> FALSE
      [] v.t = "boolean" -> v.q.n = 1
      [] v.t = "number" -> ~IsNaN(v.q) /\ ~IsZero(v.q)
      [] v.t = "string" -> v.s # ""
      [] OTHER -> TRUE

\* The numeric literals among the strings the model uses (StringToNumber).
NumericStrings == ("0" :> Q(0, 1)) @@ ("100" :> Q(100, 1)) @@ ("0.5" :> Q(1, 2))

\* Number(v) and the ToNumber coercion of the arithmetic operators
ToNumber(v) ==
    CASE v.t = "undefined" -> NaN
      [] v.t = "null" -> Q(0, 1)
      [] v.t = "boolean" -> v.q
      [] v.t = "number" -> v.q
      [] v.t = "string" ->
            IF v.s = "" THEN Q(0, 1)
            ELSE IF v.s \in DOMAIN NumericStrings THEN NumericStrings[v.s]
            ELSE NaN
      [] OTHER -> NaN

\* v || w
OrElse(v, w) == IF Truthy(v) THEN v ELSE w

clamp01_NoUpper(x) ==
    LET n == ToNumber(x)
    IN  IF ~IsFinite(n) THEN NaN ELSE MathMax(Q(0, 1), n)

\* x = Number(x); if (!Number.isFinite(x)) return NaN; return Math.max(0, Math.min(1, x))
clamp01(x) ==
    LET n == ToNumber(x)
    IN  IF ~IsFinite(n) THEN NaN ELSE MathMax(Q(0, 1), MathMin(Q(1, 1), n))

(***************************************************************************)
(* Strings that the code inspects character by character (the signature    *)
(* header, hex digests, outcome names) are sequences of one-character      *)
(* strings.                                                                *)
(***************************************************************************)
HexDigits == <<"0", "1", "2", "3", "4", "5", "6", "7", "8", "9", "a", "b", "c", "d", "e", "f">>

\* charCodeAt for the characters the model uses
CharCodes ==
    [c \in {"0", "1", "2", "3", "4", "5", "6", "7", "8", "9"} |->
        CHOOSE k \in 48..57 : HexDigits[k - 47] = c]
    @@ ("a" :> 97) @@ ("b" :> 98) @@ ("c" :> 99) @@ ("d" :> 100) @@ ("e" :> 101)
    @@ ("f" :> 102) @@ ("g" :> 103) @@ ("A" :> 65) @@ ("B" :> 66) @@ ("C" :> 67)
    @@ ("D" :> 68) @@ ("E" :> 69) @@ ("F" :> 70) @@ ("G" :> 71)

CharCodeOf(c) == CharCodes[c]

\* String.prototype.toLowerCase, one character
LowerChar(c) ==
    LET up == CharCodeOf(c)
    IN  IF up >= 65 /\ up <= 90
        THEN CHOOSE l \in DOMAIN CharCodes : CharCodes[l] = up + 32
        ELSE c

ToLowerCase(str) == [i \in 1..Len(str) |-> LowerChar(str[i])]

RECURSIVE BitXor(_, _)
BitXor(a, b) ==
    IF a = 0 /\ b = 0 THEN 0
    ELSE (((a % 2) + (b % 2)) % 2) + 2 * BitXor(a \div 2, b \div 2)

RECURSIVE BitOr(_, _)
BitOr(a, b) ==
    IF a = 0 /\ b = 0 THEN 0
    ELSE (IF (a % 2) = 1 \/ (b % 2) = 1 THEN 1 ELSE 0) + 2 * BitOr(a \div 2, b \div 2)

\* the loop of timingSafeEqual from index i on, x the accumulator so far
RECURSIVE XorAccumulate(_, _, _, _)
XorAccumulate(a, b, i, x) ==
    IF i > Len(a) THEN x
    ELSE XorAccumulate(a, b, i + 1, BitOr(x, BitXor(CharCodeOf(a[i]), CharCodeOf(b[i]))))

timingSafeEqual_PrefixOnly(a, b) ==
    \A i \in 1..(IF Len(a) < Len(b) THEN Len(a) ELSE Len(b)) : a[i] = b[i]

\* timingSafeEqual: length first, then OR of the XORed character codes
timingSafeEqual(a, b) ==
    IF Len(a) # Len(b) THEN FALSE
    ELSE XorAccumulate(a, b, 1, 0) = 0

(***************************************************************************)
(* Bounds of the model                                                     *)
(***************************************************************************)
\* bytes of a digest (SHA-256 has 32; the model keeps the digest injective with fewer)
DigestBytes == 2

\* longest outcomes / tokens / best_ask list of a market descriptor
MaxSlots == 2

\* largest reading of the clock
MaxClock == 1

(***************************************************************************)
(* The request body.  The text of the body is represented by its syntax:   *)
(* kind says what JSON.parse makes of it, and for an object the six keys   *)
(* handleTrade reads hold their values, JUndef standing for an absent key. *)
(***************************************************************************)
BodyKinds == <<"object", "malformed", "null", "array", "number", "string">>

SideOpts == <<JUndef, JStr("YES"), JStr("NO"), JStr("yes"), JStr("")>>

AskOpts == <<JUndef, JNum(0, 1), JNum(1, 2), JNum(-1, 2), JNum(2, 1), JStr("abc")>>

AmountOpts == <<JUndef, JNum(0, 1), JNum(100, 1), JNum(-100, 1), JStr("0")>>

SlippageOpts == <<JUndef, JNum(0, 1), JNum(1, 50), JNull>>

ConditionOpts == <<JUndef, JStr("c1")>>

MarketOpts == <<JUndef, JStr("m1")>>

Range(seq) == {seq[i] : i \in 1..Len(seq)}

IndexOf(seq, x) == CHOOSE i \in 1..Len(seq) : seq[i] = x

NoProps ==
    [side |-> JUndef, ask |-> JUndef, amountUsd |-> JUndef, slippage |-> JUndef,
     conditionId |-> JUndef, marketId |-> JUndef]

ObjectBodies ==
    {[kind |-> "object",
      props |-> [side |-> s, ask |-> a, amountUsd |-> u, slippage |-> l,
                 conditionId |-> c, marketId |-> m]] :
        s \in Range(SideOpts), a \in Range(AskOpts), u \in Range(AmountOpts),
        l \in Range(SlippageOpts), c \in Range(ConditionOpts), m \in Range(MarketOpts)}

Bodies ==
    ObjectBodies \cup {[kind |-> k, props |-> NoProps] : k \in Range(BodyKinds) \ {"object"}}

\* The body as a number: distinct bodies have distinct codes (its bytes, enc.encode).
BodyCode(b) ==
    LET p == b.props
    IN  (((((((IndexOf(BodyKinds, b.kind) - 1)
              * Len(SideOpts) + (IndexOf(SideOpts, p.side) - 1))
              * Len(AskOpts) + (IndexOf(AskOpts, p.ask) - 1))
              * Len(AmountOpts) + (IndexOf(AmountOpts, p.amountUsd) - 1))
              * Len(SlippageOpts) + (IndexOf(SlippageOpts, p.slippage) - 1))
              * Len(ConditionOpts) + (IndexOf(ConditionOpts, p.conditionId) - 1))
              * Len(MarketOpts) + (IndexOf(MarketOpts, p.marketId) - 1))

NumBodyCodes ==
    Len(BodyKinds) * Len(SideOpts) * Len(AskOpts) * Len(AmountOpts)
        * Len(SlippageOpts) * Len(ConditionOpts) * Len(MarketOpts)

\* JSON.parse(body): throws on malformed text, else the value
JSONParse(b) ==
    IF b.kind = "malformed" THEN [threw |-> TRUE, t |-> "undefined", props |-> NoProps]
    ELSE [threw |-> FALSE, t |-> b.kind, props |-> b.props]

(***************************************************************************)
(* HMAC-SHA256 (crypto.subtle), an injective function of key and message   *)
(***************************************************************************)
\* the keys of the model: the empty string and two shared secrets
Keys == <<"", "k1", "k2">>

\* the non-empty shared secrets
Secrets == <<"k1", "k2">>

RECURSIVE Pow(_, _)
Pow(b, e) == IF e = 0 THEN 1 ELSE b * Pow(b, e - 1)

\* crypto.subtle.sign("HMAC", key, message): the digest, a sequence of bytes
HmacSign(secret, message) ==
    LET code == (IndexOf(Keys, secret) - 1) * NumBodyCodes + BodyCode(message)
    IN  [i \in 1..DigestBytes |-> (code \div Pow(256, DigestBytes - i)) % 256]

\* b.toString(16)
ToString16(b) ==
    IF b < 16 THEN <<HexDigits[b + 1]>>
    ELSE <<HexDigits[(b \div 16) + 1], HexDigits[(b % 16) + 1]>>

\* str.padStart(2, "0")
PadStart2(str) == IF Len(str) < 2 THEN <<"0">> \o str ELSE str

RECURSIVE Join(_)
Join(parts) == IF parts = <<>> THEN <<>> ELSE Head(parts) \o Join(Tail(parts))

CalcHex_NoPad(sigBuf) == Join([i \in 1..Len(sigBuf) |-> ToString16(sigBuf[i])])

\* [...new Uint8Array(sigBuf)].map(b => b.toString(16).padStart(2, "0")).join("")
CalcHex(sigBuf) == Join([i \in 1..Len(sigBuf) |-> PadStart2(ToString16(sigBuf[i]))])

verifyHmac_NoSecretGuard(secret, message, hexSig) ==
    LET key == IF Truthy(secret) THEN secret.s ELSE Secrets[1]
    IN  timingSafeEqual(CalcHex(HmacSign(key, message)), ToLowerCase(hexSig))

verifyHmac(secret, message, hexSig) ==
    IF ~Truthy(secret) THEN FALSE
    ELSE timingSafeEqual(CalcHex(HmacSign(secret.s, message)), ToLowerCase(hexSig))

\* sig.startsWith(prefix)
StartsWith(str, prefix) ==
    Len(str) >= Len(prefix) /\ SubSeq(str, 1, Len(prefix)) = prefix

\* sig.slice(k)
Slice(str, k) == SubSeq(str, k + 1, Len(str))

SchemeTag == <<"s", "h", "a", "2", "5", "6", "=">>

(***************************************************************************)
(* The market resolver                                                     *)
(***************************************************************************)
Whitespace == {" ", "\t"}

RECURSIVE TrimStart(_)
TrimStart(str) ==
    IF str # <<>> /\ Head(str) \in Whitespace THEN TrimStart(Tail(str)) ELSE str

RECURSIVE TrimEnd(_)
TrimEnd(str) ==
    IF str # <<>> /\ str[Len(str)] \in Whitespace
    THEN TrimEnd(SubSeq(str, 1, Len(str) - 1))
    ELSE str

\* String.prototype.trim
Trim(str) == TrimEnd(TrimStart(str))

WantNames(side) ==
    IF side = JStr("YES")
    THEN {<<"U", "p">>, <<"Y", "e", "s">>, <<"Y", "E", "S">>}
    ELSE {<<"D", "o", "w", "n">>, <<"N", "o">>, <<"N", "O">>}

FindIndex(outcomes, want) ==
    LET hits == {i \in 1..Len(outcomes) : Trim(outcomes[i]) \in want}
    IN  IF hits = {} THEN -1 ELSE (CHOOSE i \in hits : \A k \in hits : i <= k) - 1

UseSlot_FallbackZero(m, side) ==
    LET idx == FindIndex(IF m.hasOutcomes THEN m.outcomes ELSE <<>>, WantNames(side))
    IN  IF idx >= 0 THEN idx ELSE 0

\* idx of (m.outcomes || []) and  use = idx >= 0 ? idx : side === "YES" ? 0 : 1
UseSlot(m, side) ==
    LET idx == FindIndex(IF m.hasOutcomes THEN m.outcomes ELSE <<>>, WantNames(side))
    IN  IF idx >= 0 THEN idx ELSE IF side = JStr("YES") THEN 0 ELSE 1

\* m.tokens?.[use]?.[key]
TokenField(m, use, key) ==
    IF ~m.hasTokens \/ use + 1 > Len(m.tokens) THEN JUndef
    ELSE IF m.tokens[use + 1].isNull THEN JUndef
    ELSE m.tokens[use + 1][key]

TokenAt(m, use) == OrElse(TokenField(m, use, "token_id"), TokenField(m, use, "tokenId"))

\* the advisory best ask of slot use, JUndef when there is none
PriceFromBook(m, use) ==
    IF m.hasBestAsk /\ use + 1 <= Len(m.best_ask)
       /\ m.best_ask[use + 1].t \notin {"null", "undefined"}
    THEN LET v == ToNumber(m.best_ask[use + 1])
         IN  IF IsFinite(v)
             THEN [t |-> "number", q |-> clamp01(m.best_ask[use + 1]), s |-> ""]
             ELSE JUndef
    ELSE JUndef

ResolveOk(tokenId, priceFromBook) ==
    [ok |-> TRUE, error |-> <<>>, tokenId |-> tokenId, priceFromBook |-> priceFromBook]

ResolveFail(parts) ==
    [ok |-> FALSE, error |-> parts, tokenId |-> JUndef, priceFromBook |-> JUndef]

\* resolveTokenId once the lookup has answered with m = arr[0]
ResolveMarket(m, side) ==
    LET use     == UseSlot(m, side)
        tokenId == TokenAt(m, use)
    IN  IF ~Truthy(tokenId) THEN ResolveFail(<<"Missing tokenId">>)
        ELSE ResolveOk(tokenId, PriceFromBook(m, use))

ResolveResponse_Propagate(r, side) ==
    CASE r.kind = "throw" -> ResolveFail(<<"resolveTokenId error: ", r.message>>)
      [] r.kind = "status" -> ResolveFail(<<"Gamma API ", r.message>>)
      [] r.kind = "badjson" -> ResolveFail(<<"resolveTokenId error: ", r.message>>)
      [] r.kind \in {"nonarray", "empty"} -> ResolveOk(JStr("none"), JUndef)
      [] r.kind = "nullrecord" -> ResolveFail(<<"resolveTokenId error: ", r.message>>)
      [] OTHER -> ResolveMarket(r.market, side)

\* resolveTokenId from the answer of fetch(url) on: the status check, r.json(),
\* the list check, arr[0], the slot and the token, inside its try/catch
ResolveResponse(r, side) ==
    CASE r.kind = "throw" -> ResolveFail(<<"resolveTokenId error: ", r.message>>)
      [] r.kind = "status" -> ResolveFail(<<"Gamma API ", r.message>>)
      [] r.kind = "badjson" -> ResolveFail(<<"resolveTokenId error: ", r.message>>)
      [] r.kind \in {"nonarray", "empty"} -> ResolveFail(<<"No market found">>)
      [] r.kind = "nullrecord" -> ResolveFail(<<"resolveTokenId error: ", r.message>>)
      [] OTHER -> ResolveMarket(r.market, side)

\* the url resolveTokenId builds, or "none" with neither identifier
LookupFilter(conditionId, marketId) ==
    IF Truthy(conditionId) THEN "condition_ids"
    ELSE IF Truthy(marketId) THEN "slug"
    ELSE "none"

(***************************************************************************)
(* What the collaborators can answer                                       *)
(***************************************************************************)
\* outcome display names a descriptor may carry
OutcomeNames ==
    {<<"Y", "e", "s">>, <<"N", "o">>, <<"U", "p">>, <<" ", "D", "o", "w", "n", " ">>,
     <<"y", "e", "s">>, <<"O", "t", "h", "e", "r">>}

\* token identifiers by slot, in the snake_case and in the camelCase field
SnakeIds == <<"A", "B", "C", "D">>

CamelIds == <<"a", "b", "c", "d">>

TokenShapes == {"snake", "camel", "emptySnake", "noId", "null"}

\* the entry of tokens at (1-based) position i
MakeToken(shape, i) ==
    CASE shape = "snake" ->
            [isNull |-> FALSE, token_id |-> JStr(SnakeIds[i]), tokenId |-> JUndef]
      [] shape = "camel" ->
            [isNull |-> FALSE, token_id |-> JUndef, tokenId |-> JStr(CamelIds[i])]
      [] shape = "emptySnake" ->
            [isNull |-> FALSE, token_id |-> JStr(""), tokenId |-> JStr(CamelIds[i])]
      [] shape = "noId" ->
            [isNull |-> FALSE, token_id |-> JUndef, tokenId |-> JUndef]
      [] OTHER ->
            [isNull |-> TRUE, token_id |-> JUndef, tokenId |-> JUndef]

SeqsUpTo(S, n) == UNION {[1..k -> S] : k \in 0..n}

\* the tokens lists of at most n entries
TokenLists(n) ==
    {[i \in 1..Len(f) |-> MakeToken(f[i], i)] : f \in SeqsUpTo(TokenShapes, n)}

BestAsks ==
    {<<>>, <<JNum(3, 5), JNum(3, 2)>>, <<JNull, JStr("abc")>>, <<JNum(-1, 4)>>}

Market(hasOutcomes, outcomes, hasTokens, tokens, hasBestAsk, bestAsk) ==
    [hasOutcomes |-> hasOutcomes, outcomes |-> outcomes,
     hasTokens |-> hasTokens, tokens |-> tokens,
     hasBestAsk |-> hasBestAsk, best_ask |-> bestAsk]

NoMarket == Market(FALSE, <<>>, FALSE, <<>>, FALSE, <<>>)

\* every descriptor whose lists have at most n entries
Markets(n) ==
    {Market(TRUE, o, TRUE, t, TRUE, b) :
        o \in SeqsUpTo(OutcomeNames, n), t \in TokenLists(n), b \in BestAsks}
    \cup {Market(FALSE, <<>>, TRUE, t, FALSE, <<>>) : t \in TokenLists(n)}
    \cup {Market(TRUE, o, FALSE, <<>>, FALSE, <<>>) : o \in SeqsUpTo(OutcomeNames, n)}

\* the failure texts a collaborator may throw with
FailureTexts == {"insufficient balance", "network down"}

LookupAnswer(kind, message, market) == [kind |-> kind, message |-> message, market |-> market]

NoLookup == LookupAnswer("none", "", NoMarket)

\* answers of the metadata service that carry no descriptor
FailedLookups ==
    {LookupAnswer("throw", e, NoMarket) : e \in FailureTexts}
    \cup {LookupAnswer("status", c, NoMarket) : c \in {"404", "503"}}
    \cup {LookupAnswer("badjson", "Unexpected token", NoMarket),
          LookupAnswer("nonarray", "", NoMarket),
          LookupAnswer("empty", "", NoMarket),
          LookupAnswer("nullrecord", "Cannot read properties of null", NoMarket)}

\* the descriptors the request pipeline is run against
PipelineMarkets ==
    {Market(TRUE, <<<<"Y", "e", "s">>, <<"N", "o">>>>, TRUE,
            <<MakeToken("snake", 1), MakeToken("snake", 2)>>, TRUE,
            <<JNum(3, 5), JNum(3, 2)>>),
     Market(FALSE, <<>>, TRUE,
            <<MakeToken("camel", 1), MakeToken("camel", 2)>>, FALSE, <<>>),
     Market(TRUE, <<<<"N", "o">>, <<" ", "U", "p">>>>, TRUE,
            <<MakeToken("snake", 1), MakeToken("emptySnake", 2)>>, TRUE,
            <<JNull, JStr("abc")>>),
     Market(TRUE, <<<<"O", "t", "h", "e", "r">>>>, TRUE,
            <<MakeToken("snake", 1)>>, FALSE, <<>>)}
    \cup {Market(TRUE, <<<<"Y", "e", "s">>, <<"N", "o">>>>, TRUE,
                 <<MakeToken("snake", 1), MakeToken("snake", 2)>>, b # <<>>, b) :
             b \in BestAsks}

PipelineLookups ==
    FailedLookups \cup {LookupAnswer("market", "", m) : m \in PipelineMarkets}

(***************************************************************************)
(* Responses                                                               *)
(***************************************************************************)
NoFills == [sharesBought |-> JUndef, avgPrice |-> JUndef, costUsd |-> JUndef]

NoMeta == [tokenId |-> JUndef, priceFromBook |-> JUndef]

\* the object handed to json(): keys holding JUndef are absent
Data(ok, error) ==
    [ok |-> ok, error |-> error, name |-> "", time |-> -1, order |-> "",
     fills |-> NoFills, meta |-> NoMeta]

\* JSON.stringify of a number: NaN and the infinities become null
StringifyNum(q) == IF IsFinite(q) THEN [t |-> "number", q |-> q, s |-> ""] ELSE JNull

json(data, status) ==
    [status |-> status, contentType |-> "application/json", text |-> "", data |-> data]

\* new Response("Not found", { status: 404 })
NotFound ==
    [status |-> 404, contentType |-> "text/plain", text |-> "Not found",
     data |-> Data(JUndef, <<>>)]

NoResponse ==
    [status |-> 0, contentType |-> "", text |-> "", data |-> Data(JUndef, <<>>)]

Unhandled_Propagate(message) == NoResponse

\* the catch of the fetch handler: json({ok:false, error: e.message}, 500)
Unhandled(message) == json(Data(JBool(FALSE), <<message>>), 500)

(***************************************************************************)
(* State                                                                   *)
(***************************************************************************)
VARIABLES
    env,        \* the configuration: HUD_SHARED_SECRET
    request,    \* the request being served: path, method, signature header, body
    pc,         \* where the handler of the request stands
    sig,        \* handleTrade's sig
    body,       \* handleTrade's body, once request.text() has answered
    payload,    \* the destructured payload: side, ask, amountUsd, slippage, ids
    url,        \* the lookup resolveTokenId issued
    lookup,     \* what the metadata service answered
    resolved,   \* the result of resolveTokenId
    price,      \* handleTrade's price
    shares,     \* handleTrade's shares
    order,      \* the order handed to client.place
    calls,      \* the collaborator calls of this request, in order
    response,   \* the response of the fetch handler
    now,        \* the last reading of the clock
    thrown,     \* the exception raised in this request, if any: by whom, its message
    fn,         \* argument and result of a function applied on its own
    previous    \* what the request served before this one was given and answered

vars ==
    <<env, request, pc, sig, body, payload, url, lookup, resolved, price, shares,
      order, calls, response, now, thrown, fn, previous>>

NoHeader == [present |-> FALSE, text |-> <<>>]

Header(text) == [present |-> TRUE, text |-> text]

NoBody == [kind |-> "unread", props |-> NoProps]

NoRequest == [path |-> "", method |-> "", signature |-> NoHeader, body |-> NoBody]

NoUrl == [filter |-> "none", id |-> JUndef]

NoResolved == ResolveFail(<<>>)

NoOrder ==
    [token_id |-> JUndef, price |-> NaN, size |-> NaN, side |-> -1,
     client_order_id |-> <<>>, time_in_force |-> "", post_only |-> TRUE]

NoThrow == [by |-> "", message |-> ""]

Throw(by, message) == [by |-> by, message |-> message]

NoFn == [name |-> "", done |-> FALSE]

\* String.prototype.toUpperCase on a hex string (what a caller may present)
ToUpperCase(str) ==
    [i \in 1..Len(str) |->
        LET c == CharCodeOf(str[i])
        IN  IF c >= 97 /\ c <= 122
            THEN CHOOSE u \in DOMAIN CharCodes : CharCodes[u] = c - 32
            ELSE str[i]]

\* the caller's rendering of a digest: two lowercase hex digits per byte
HexOf(digest) ==
    [i \in 1..(2 * Len(digest)) |->
        LET b == digest[(i + 1) \div 2]
        IN  HexDigits[(IF i % 2 = 1 THEN b \div 16 ELSE b % 16) + 1]]

\* the signature the caller computes: hex of HMAC-SHA256(secret, body)
Signature(secret, b) == HexOf(HmacSign(secret, b))

\* str with the character at position i replaced by c
ReplaceAt(str, i, c) == [k \in 1..Len(str) |-> IF k = i THEN c ELSE str[k]]

\* the signature headers a caller presents with body b
PresentedHeaders(b) ==
    LET good == Signature(Secrets[1], b)
    IN  {NoHeader, Header(<<>>), Header(good),
         Header(<<"s", "h", "a", "1", "=">> \o good),
         Header(SchemeTag \o good),
         Header(SchemeTag \o ToUpperCase(good)),
         Header(SchemeTag \o Signature(Secrets[2], b)),
         Header(SchemeTag \o Signature(Keys[1], b)),
         Header(SchemeTag \o ReplaceAt(good, Len(good), "g")),
         Header(SchemeTag \o SubSeq(good, 1, Len(good) - 1))}

\* a signed (or not) POST /trade
TradeRequest(b, h) == [path |-> "/trade", method |-> "POST", signature |-> h, body |-> b]

\* requests the fetch handler answers itself
OtherRequests ==
    {[path |-> r[1], method |-> r[2], signature |-> NoHeader,
      body |-> [kind |-> "malformed", props |-> NoProps]] :
        r \in {<<"/health", "GET">>, <<"/health", "POST">>, <<"/trade", "GET">>,
               <<"/other", "GET">>, <<"/other", "POST">>}}

\* no request was served before
NoPrevious ==
    [request |-> NoRequest, lookup |-> NoLookup, thrown |-> NoThrow, url |-> NoUrl,
     calls |-> <<>>, resolved |-> NoResolved, order |-> NoOrder,
     response |-> NoResponse]

\* no request is being served
Idle ==
    /\ request = NoRequest
    /\ pc = "idle"
    /\ sig = <<>>
    /\ body = NoBody
    /\ payload = NoProps
    /\ url = NoUrl
    /\ lookup = NoLookup
    /\ resolved = NoResolved
    /\ price = NaN
    /\ shares = NaN
    /\ order = NoOrder
    /\ calls = <<>>
    /\ response = NoResponse
    /\ now = 0
    /\ thrown = NoThrow
    /\ previous = NoPrevious

Init ==
    /\ env \in {[HUD_SHARED_SECRET |-> k] : k \in {JUndef, JStr(""), JStr(Secrets[1])}}
    /\ Idle
    /\ fn = NoFn

(***************************************************************************)
(* The fetch handler and handleTrade, one action per step                  *)
(***************************************************************************)
\* the handler returns r
Respond(r) == response' = r /\ pc' = "done"

\* a request arrives
Receive ==
    /\ pc = "idle"
    /\ \/ \E b \in Bodies : \E h \in PresentedHeaders(b) : request' = TradeRequest(b, h)
       \/ \E r \in OtherRequests : request' = r
    /\ pc' = "route"
    /\ UNCHANGED <<env, sig, body, payload, url, lookup, resolved, price, shares,
                   order, calls, response, now, thrown, fn, previous>>

\* fetch: /health, POST /trade, anything else
Route ==
    /\ pc = "route"
    /\ \/ /\ request.path = "/health"
          /\ \E t \in now..MaxClock :
                /\ now' = t
                /\ Respond(json([Data(JBool(TRUE), <<>>) EXCEPT
                                    !.name = "poly-trader", !.time = t], 200))
       \/ /\ request.path # "/health"
          /\ request.path = "/trade" /\ request.method = "POST"
          /\ pc' = "auth"
          /\ UNCHANGED <<response, now>>
       \/ /\ request.path # "/health"
          /\ ~(request.path = "/trade" /\ request.method = "POST")
          /\ Respond(NotFound)
          /\ UNCHANGED now
    /\ UNCHANGED <<env, request, sig, body, payload, url, lookup, resolved, price,
                   shares, order, calls, thrown, fn, previous>>

\* handleTrade: sig = header || "", and the scheme tag check
CheckSignatureHeader ==
    /\ pc = "auth"
    /\ LET s == IF request.signature.present THEN request.signature.text ELSE <<>>
       IN  /\ sig' = s
           /\ IF ~StartsWith(s, SchemeTag)
              THEN Respond(json(Data(JBool(FALSE), <<"Missing/invalid signature">>), 401))
              ELSE pc' = "text" /\ UNCHANGED response
    /\ UNCHANGED <<env, request, body, payload, url, lookup, resolved, price, shares,
                   order, calls, now, thrown, fn, previous>>

\* body = await request.text()
ReadBody ==
    /\ pc = "text"
    /\ body' = request.body
    /\ calls' = Append(calls, "request.text")
    /\ pc' = "verify"
    /\ UNCHANGED <<env, request, sig, payload, url, lookup, resolved, price, shares,
                   order, response, now, thrown, fn, previous>>

\* what verifyHmac calls of crypto.subtle
HmacCalls(secret) ==
    IF Truthy(secret) THEN <<"crypto.subtle.importKey", "crypto.subtle.sign">> ELSE <<>>

\* await verifyHmac(env.HUD_SHARED_SECRET, body, sig.slice(7))
VerifySignature ==
    /\ pc = "verify"
    /\ calls' = calls \o HmacCalls(env.HUD_SHARED_SECRET)
    /\ IF ~verifyHmac(env.HUD_SHARED_SECRET, body, Slice(sig, 7))
       THEN Respond(json(Data(JBool(FALSE), <<"Signature mismatch">>), 401))
       ELSE pc' = "parse" /\ UNCHANGED response
    /\ UNCHANGED <<env, request, sig, body, payload, url, lookup, resolved, price,
                   shares, order, now, thrown, fn, previous>>

Destructure_FalsyDefault(props) ==
    [props EXCEPT !.slippage = IF ~Truthy(@) THEN JNum(1, 100) ELSE @]

\* const { conditionId, marketId, side, ask, amountUsd, slippage = 0.01 } = payload
Destructure(props) ==
    [props EXCEPT !.slippage = IF @.t = "undefined" THEN JNum(1, 100) ELSE @]

Validate_UndefinedOnly(locals) ==
    IF locals.side.t = "undefined" \/ locals.amountUsd.t = "undefined"
       \/ locals.ask.t = "undefined"
    THEN <<"Missing side/amountUsd/ask">>
    ELSE IF locals.side \notin {JStr("YES"), JStr("NO")}
    THEN <<"side must be YES or NO">>
    ELSE <<>>

\* the two checks of the payload: the error of the 400, or <<>> when it passes
Validate(locals) ==
    IF ~Truthy(locals.side) \/ ~Truthy(locals.amountUsd) \/ ~Truthy(locals.ask)
    THEN <<"Missing side/amountUsd/ask">>
    ELSE IF locals.side \notin {JStr("YES"), JStr("NO")}
    THEN <<"side must be YES or NO">>
    ELSE <<>>

\* JSON.parse, the destructuring and the two checks of the payload
ParsePayload ==
    /\ pc = "parse"
    /\ LET parsed == JSONParse(body)
           locals == Destructure(parsed.props)
       IN  IF parsed.threw
           THEN /\ thrown' = Throw("JSON.parse", "Unexpected token")
                /\ Respond(json(Data(JBool(FALSE), <<"Bad JSON">>), 400))
                /\ UNCHANGED payload
           ELSE IF parsed.t = "null"
           THEN /\ thrown' = Throw("destructure", "Cannot destructure property of null")
                /\ Respond(Unhandled(thrown'.message))
                /\ UNCHANGED payload
           ELSE /\ payload' = locals
                /\ IF Validate(locals) # <<>>
                   THEN Respond(json(Data(JBool(FALSE), Validate(locals)), 400))
                   ELSE pc' = "resolve" /\ UNCHANGED response
                /\ UNCHANGED thrown
    /\ UNCHANGED <<env, request, sig, body, url, lookup, resolved, price, shares,
                   order, calls, now, fn, previous>>

\* resolveTokenId up to its fetch: the url, or the failure with no identifier
ResolveStart ==
    /\ pc = "resolve"
    /\ LET filter == LookupFilter(payload.conditionId, payload.marketId)
       IN  IF filter = "none"
           THEN /\ resolved' = ResolveFail(<<"No conditionId/marketId to resolve tokenId">>)
                /\ Respond(json(Data(JBool(FALSE), resolved'.error), 400))
                /\ UNCHANGED <<url, calls>>
           ELSE /\ url' = [filter |-> filter,
                           id |-> IF filter = "condition_ids" THEN payload.conditionId
                                  ELSE payload.marketId]
                /\ calls' = Append(calls, "fetch")
                /\ pc' = "lookup"
                /\ UNCHANGED <<resolved, response>>
    /\ UNCHANGED <<env, request, sig, body, payload, lookup, price, shares, order,
                   now, thrown, fn, previous>>

\* the exception a lookup answer raises inside resolveTokenId, if any
LookupThrow(r) ==
    CASE r.kind = "throw" -> Throw("fetch", r.message)
      [] r.kind = "badjson" -> Throw("r.json", r.message)
      [] r.kind = "nullrecord" -> Throw("m.outcomes", r.message)
      [] OTHER -> NoThrow

\* the lookup answers; the rest of resolveTokenId, and if (!resolved.ok) return json(resolved, 400)
LookupReturn ==
    /\ pc = "lookup"
    /\ \E r \in PipelineLookups :
          /\ lookup' = r
          /\ thrown' = LookupThrow(r)
          /\ resolved' = ResolveResponse(r, payload.side)
    /\ IF ~resolved'.ok
       THEN Respond(json(Data(JBool(FALSE), resolved'.error), 400))
       ELSE pc' = "build" /\ UNCHANGED response
    /\ UNCHANGED <<env, request, sig, body, payload, url, price, shares, order,
                   calls, now, fn, previous>>

OrderPrice_FromBook(ask, slippage) ==
    IF resolved.priceFromBook # JUndef THEN resolved.priceFromBook.q
    ELSE clamp01([t |-> "number", s |-> "",
                  q |-> NumMul(ToNumber(ask),
                               NumAdd(Q(1, 1), ToNumber(OrElse(slippage, JNum(0, 1)))))])

\* price = clamp01(Number(ask) * (1 + Number(slippage || 0)))
OrderPrice(ask, slippage) ==
    clamp01([t |-> "number", s |-> "",
             q |-> NumMul(ToNumber(ask),
                          NumAdd(Q(1, 1), ToNumber(OrElse(slippage, JNum(0, 1)))))])

OrderShares_Times(amountUsd, p) == NumMul(ToNumber(amountUsd), p)

\* shares = amountUsd / price
OrderShares(amountUsd, p) == NumDiv(ToNumber(amountUsd), p)

ClientCalls_NoKey == <<"Wallet", "ClobClient">>

\* new Wallet(env.PRIVATE_KEY), new ClobClient(host, chain, signer),
\* client.createOrDeriveApiKey(...)
ClientCalls == <<"Wallet", "ClobClient", "createOrDeriveApiKey">>

\* price and shares, new Wallet (which may throw), new ClobClient, and the call
\* of createOrDeriveApiKey
BuildOrder ==
    /\ pc = "build"
    /\ LET p == OrderPrice(payload.ask, payload.slippage)
       IN  price' = p /\ shares' = OrderShares(payload.amountUsd, p)
    /\ \/ /\ calls' = calls \o ClientCalls
          /\ pc' = "cred"
          /\ UNCHANGED <<response, thrown>>
       \/ /\ calls' = Append(calls, "Wallet")
          /\ thrown' = Throw("Wallet", "invalid private key")
          /\ Respond(Unhandled(thrown'.message))
    /\ UNCHANGED <<env, request, sig, body, payload, url, lookup, resolved, order,
                   now, fn, previous>>

\* the order of handleTrade, the clock read at t
MakeOrder(tokenId, p, size, side, t) ==
    [token_id |-> tokenId, price |-> p, size |-> size,
     side |-> IF side = JStr("YES") THEN 0 ELSE 1,
     client_order_id |-> <<"hud-", t>>, time_in_force |-> "IOC", post_only |-> FALSE]

\* createOrDeriveApiKey answers: the order is built and handed to place, or the
\* exception reaches the catch of the fetch handler
CredentialReturn ==
    /\ pc = "cred"
    /\ \/ /\ \E t \in now..MaxClock :
                /\ now' = t
                /\ order' = MakeOrder(resolved.tokenId, price, shares, payload.side, t)
          /\ calls' = Append(calls, "place")
          /\ pc' = "place"
          /\ UNCHANGED <<response, thrown>>
       \/ /\ \E e \in FailureTexts :
                /\ thrown' = Throw("createOrDeriveApiKey", e)
                /\ Respond(Unhandled(e))
          /\ UNCHANGED <<order, calls, now>>
    /\ UNCHANGED <<env, request, sig, body, payload, url, lookup, resolved, price,
                   shares, fn, previous>>

\* the acknowledgements of the exchange: two that JSON.stringify renders, and one
\* holding a BigInt, which it refuses with a TypeError
Acks == {"matched", "cancelled", "bigint"}

Serialisable(a) == a # "bigint"

StringifyError == "Do not know how to serialize a BigInt"

\* the body of the 200 response
Success(placed) ==
    [Data(JBool(TRUE), <<>>) EXCEPT
        !.order = placed,
        !.fills = [sharesBought |-> StringifyNum(shares), avgPrice |-> StringifyNum(price),
                   costUsd |-> StringifyNum(NumMul(shares, price))],
        !.meta = [tokenId |-> resolved.tokenId, priceFromBook |-> resolved.priceFromBook]]

PlaceFailed_Generic(e) == json(Data(JBool(FALSE), <<"place() failed">>), 502)

\* catch (e) { return json({ ok: false, error: `place() failed: ${e.message}` }, 502) }
PlaceFailed(e) == json(Data(JBool(FALSE), <<"place() failed: ", e>>), 502)

\* place answers; the 200 response is built inside the try, so what JSON.stringify
\* throws on the acknowledgement is caught like a failure of place
PlaceReturn ==
    /\ pc = "place"
    /\ \/ \E a \in Acks :
             IF Serialisable(a)
             THEN Respond(json(Success(a), 200)) /\ UNCHANGED thrown
             ELSE /\ thrown' = Throw("JSON.stringify", StringifyError)
                  /\ Respond(PlaceFailed(StringifyError))
       \/ \E e \in FailureTexts :
             /\ thrown' = Throw("place", e)
             /\ Respond(PlaceFailed(e))
    /\ UNCHANGED <<env, request, sig, body, payload, url, lookup, resolved, price,
                   shares, order, calls, now, fn, previous>>

Next ==
    \/ Receive
    \/ Route
    \/ CheckSignatureHeader
    \/ ReadBody
    \/ VerifySignature
    \/ ParsePayload
    \/ ResolveStart
    \/ LookupReturn
    \/ BuildOrder
    \/ CredentialReturn
    \/ PlaceReturn

Spec == Init /\ [][Next]_vars

(***************************************************************************)
(* The worker serving one request and then another: the clock goes on, the *)
(* locals of the first handler are gone, and what the first request was    *)
(* given and answered is kept to compare the second with                   *)
(***************************************************************************)
\* payloads that pass the validation
RequestBodies ==
    {[kind |-> "object",
      props |-> [NoProps EXCEPT !.side = sd, !.ask = JNum(1, 2),
                                !.amountUsd = JNum(100, 1), !.conditionId = JStr("c1")]] :
        sd \in {JStr("YES"), JStr("NO")}}

\* a request arrives: a POST /trade signed under the secret, or one fetch answers itself
ReceiveSigned ==
    /\ pc = "idle"
    /\ \/ \E b \in RequestBodies :
             request' = TradeRequest(b, Header(SchemeTag \o Signature(Secrets[1], b)))
       \/ \E r \in OtherRequests : request' = r
    /\ pc' = "route"
    /\ UNCHANGED <<env, sig, body, payload, url, lookup, resolved, price, shares,
                   order, calls, response, now, thrown, fn, previous>>

\* the response is out; the handler's locals are gone and the next request may arrive
NextRequest ==
    /\ pc = "done"
    /\ previous = NoPrevious
    /\ previous' = [request |-> request, lookup |-> lookup, thrown |-> thrown,
                    url |-> url, calls |-> calls, resolved |-> resolved,
                    order |-> order, response |-> response]
    /\ request' = NoRequest
    /\ pc' = "idle"
    /\ sig' = <<>>
    /\ body' = NoBody
    /\ payload' = NoProps
    /\ url' = NoUrl
    /\ lookup' = NoLookup
    /\ resolved' = NoResolved
    /\ price' = NaN
    /\ shares' = NaN
    /\ order' = NoOrder
    /\ calls' = <<>>
    /\ response' = NoResponse
    /\ thrown' = NoThrow
    /\ UNCHANGED <<env, now, fn>>

NextRequests ==
    \/ ReceiveSigned
    \/ Route
    \/ CheckSignatureHeader
    \/ ReadBody
    \/ VerifySignature
    \/ ParsePayload
    \/ ResolveStart
    \/ LookupReturn
    \/ BuildOrder
    \/ CredentialReturn
    \/ PlaceReturn
    \/ NextRequest

SpecRequests == Init /\ [][NextRequests]_vars

(***************************************************************************)
(* The handler under fairness: every await it makes is answered, by a      *)
(* value or by an exception                                                *)
(***************************************************************************)
\* where a handler can stand once the request is in
HandlerPositions ==
    {"route", "auth", "text", "verify", "parse", "resolve", "lookup", "build", "cred",
     "place", "done"}

\* the handler leaves the position it stands at
Advance == pc \in HandlerPositions \ {"done"} /\ pc' \in HandlerPositions \ {pc}

\* no handler is left waiting for ever at an await
SpecLive == Spec /\ WF_pc(Advance)

(***************************************************************************)
(* The second implementation (the browser build): its fetch and            *)
(* handleTrade as a function of the configuration, the request and what    *)
(* the collaborators answer. Its helpers (verifyHmac, timingSafeEqual,     *)
(* clamp01, resolveTokenId, j) are the text of the first implementation's. *)
(***************************************************************************)
\* what a run did: the calls in order, the url given to fetch, the order given to
\* place, and the response
Part000_Answer(c, u, o, r) == [calls |-> c, url |-> u, order |-> o, response |-> r]

Part000_handleTrade(e, req, out) ==
    LET s == IF req.signature.present THEN req.signature.text ELSE <<>>
        verified == <<"request.text">> \o HmacCalls(e.HUD_SHARED_SECRET)
        parsed == JSONParse(req.body)
        locals == Destructure(parsed.props)
        filter == LookupFilter(locals.conditionId, locals.marketId)
        u == [filter |-> filter,
              id |-> IF filter = "condition_ids" THEN locals.conditionId
                     ELSE locals.marketId]
        res == ResolveResponse(out.lookup, locals.side)
        p == OrderPrice(locals.ask, locals.slippage)
        sh == OrderShares(locals.amountUsd, p)
        o == MakeOrder(res.tokenId, p, sh, locals.side, out.clock)
        keyed == verified \o <<"fetch", "Wallet", "ClobClient", "createOrDeriveApiKey">>
        placed == Append(keyed, "place")
        fail(error, status) == json(Data(JBool(FALSE), error), status)
    IN  IF ~StartsWith(s, SchemeTag)
        THEN Part000_Answer(<<>>, NoUrl, NoOrder, fail(<<"Missing/invalid signature">>, 401))
        ELSE IF ~verifyHmac(e.HUD_SHARED_SECRET, req.body, Slice(s, 7))
        THEN Part000_Answer(verified, NoUrl, NoOrder, fail(<<"Signature mismatch">>, 401))
        ELSE IF parsed.threw
        THEN Part000_Answer(verified, NoUrl, NoOrder, fail(<<"Bad JSON">>, 400))
        ELSE IF parsed.t = "null"
        THEN Part000_Answer(verified, NoUrl, NoOrder,
                            Unhandled("Cannot destructure property of null"))
        ELSE IF Validate(locals) # <<>>
        THEN Part000_Answer(verified, NoUrl, NoOrder, fail(Validate(locals), 400))
        ELSE IF filter = "none"
        THEN Part000_Answer(verified, NoUrl, NoOrder,
                            fail(<<"No conditionId/marketId to resolve tokenId">>, 400))
        ELSE IF ~res.ok
        THEN Part000_Answer(Append(verified, "fetch"), u, NoOrder, fail(res.error, 400))
        ELSE IF out.wallet # ""
        THEN Part000_Answer(verified \o <<"fetch", "Wallet">>, u, NoOrder,
                            Unhandled(out.wallet))
        ELSE IF out.cred # ""
        THEN Part000_Answer(keyed, u, NoOrder, Unhandled(out.cred))
        ELSE IF out.place.threw
        THEN Part000_Answer(placed, u, o,
                            fail(<<"place() failed: ", out.place.message>>, 502))
        ELSE IF ~Serialisable(out.place.ack)
        THEN Part000_Answer(placed, u, o, Unhandled(StringifyError))
        ELSE Part000_Answer(placed, u, o,
                json([Data(JBool(TRUE), <<>>) EXCEPT
                        !.order = out.place.ack,
                        !.fills = [sharesBought |-> StringifyNum(sh),
                                   avgPrice |-> StringifyNum(p),
                                   costUsd |-> StringifyNum(NumMul(sh, p))],
                        !.meta = [tokenId |-> res.tokenId,
                                  priceFromBook |-> res.priceFromBook]], 200))

Part000_fetch(e, req, out) ==
    IF req.path = "/health"
    THEN Part000_Answer(<<>>, NoUrl, NoOrder,
                        json([Data(JBool(TRUE), <<>>) EXCEPT
                                !.name = "poly-trader", !.time = out.clock], 200))
    ELSE IF req.path = "/trade" /\ req.method = "POST"
    THEN Part000_handleTrade(e, req, out)
    ELSE Part000_Answer(<<>>, NoUrl, NoOrder, NotFound)

(***************************************************************************)
(* verifyHmac applied on its own to a secret, a message and a presented    *)
(* signature                                                               *)
(***************************************************************************)
\* the messages signed: every body that is no object, and the objects over ask and amountUsd
VerifyMessages ==
    {b \in Bodies : b.kind # "object"}
    \cup {[kind |-> "object",
           props |-> [NoProps EXCEPT !.side = JStr("YES"), !.conditionId = JStr("c1"),
                                     !.ask = a, !.amountUsd = u]] :
            a \in Range(AskOpts), u \in Range(AmountOpts)}

\* what may be presented for message b under key k: the signature, each one-character
\* change of it, and the signature of every other message
PresentedSignatures(k, b) ==
    LET good == Signature(k, b)
    IN  {good}
        \cup {ReplaceAt(good, i, c) : i \in 1..Len(good), c \in DOMAIN CharCodes}
        \cup {Signature(k, b2) : b2 \in VerifyMessages}

InitVerify ==
    /\ env = [HUD_SHARED_SECRET |-> JUndef]
    /\ Idle
    /\ \E k \in Range(Keys) : \E b \in VerifyMessages : \E h \in PresentedSignatures(k, b) :
          fn = [name |-> "verifyHmac", done |-> FALSE, result |-> FALSE,
                secret |-> JStr(k), message |-> b, hexSig |-> h]

ApplyVerify ==
    /\ fn.name = "verifyHmac"
    /\ ~fn.done
    /\ fn' = [fn EXCEPT !.done = TRUE,
                        !.result = verifyHmac(fn.secret, fn.message, fn.hexSig)]
    /\ UNCHANGED <<env, request, pc, sig, body, payload, url, lookup, resolved, price,
                   shares, order, calls, response, now, thrown, previous>>

SpecVerify == InitVerify /\ [][ApplyVerify]_vars

(***************************************************************************)
(* resolveTokenId applied on its own to a descriptor and a side            *)
(***************************************************************************)
InitResolve ==
    /\ env = [HUD_SHARED_SECRET |-> JUndef]
    /\ Idle
    /\ \E m \in Markets(MaxSlots) : \E s \in {JStr("YES"), JStr("NO")} :
          fn = [name |-> "resolveTokenId", done |-> FALSE, result |-> NoResolved,
                market |-> m, side |-> s]

ApplyResolve ==
    /\ fn.name = "resolveTokenId"
    /\ ~fn.done
    /\ fn' = [fn EXCEPT !.done = TRUE,
                        !.result = ResolveResponse(LookupAnswer("market", "", fn.market),
                                                   fn.side)]
    /\ UNCHANGED <<env, request, pc, sig, body, payload, url, lookup, resolved, price,
                   shares, order, calls, response, now, thrown, previous>>

SpecResolve == InitResolve /\ [][ApplyResolve]_vars

(***************************************************************************)
(* The price and the shares of handleTrade computed on their own from the  *)
(* ask, amountUsd and slippage of a validated payload                      *)
(***************************************************************************)
\* truthy asks and amounts (the validation lets no other through), and every kind
\* of slippage: absent, falsy, a fraction, negative, above one
PriceAsks ==
    {JNum(1, 2), JNum(99, 100), JNum(1, 1), JNum(2, 1), JNum(-1, 2), JStr("abc"),
     JStr("0.5")}

PriceAmounts == {JNum(100, 1), JNum(1, 2), JNum(-100, 1), JStr("0")}

PriceSlippages ==
    {JUndef, JNull, JNum(0, 1), JStr(""), JBool(FALSE), JNum(1, 50), JNum(1, 100),
     JNum(-1, 2), JNum(2, 1)}

InitPrice ==
    /\ env = [HUD_SHARED_SECRET |-> JUndef]
    /\ Idle
    /\ \E a \in PriceAsks : \E u \in PriceAmounts : \E sl \in PriceSlippages :
          fn = [name |-> "price", done |-> FALSE, price |-> NaN, shares |-> NaN,
                props |-> [NoProps EXCEPT !.side = JStr("YES"), !.ask = a,
                                          !.amountUsd = u, !.slippage = sl]]

ApplyPrice ==
    /\ fn.name = "price"
    /\ ~fn.done
    /\ LET locals == Destructure(fn.props)
           p == OrderPrice(locals.ask, locals.slippage)
       IN  fn' = [fn EXCEPT !.done = TRUE, !.price = p,
                            !.shares = OrderShares(locals.amountUsd, p)]
    /\ UNCHANGED <<env, request, pc, sig, body, payload, url, lookup, resolved, price,
                   shares, order, calls, response, now, thrown, previous>>

SpecPrice == InitPrice /\ [][ApplyPrice]_vars

(***************************************************************************)
(* clamp01 applied to a number, and again to its result                    *)
(***************************************************************************)
MaxNumerator == 12

MaxDenominator == 5

\* the numbers n/d within the bounds, NaN and the two infinities
ClampInputs ==
    {Q(n, d) : n \in (-MaxNumerator)..MaxNumerator, d \in 1..MaxDenominator}
    \cup {NaN, Q(1, 0), Q(-1, 0)}

InitClamp ==
    /\ env = [HUD_SHARED_SECRET |-> JUndef]
    /\ Idle
    /\ \E x \in ClampInputs :
          fn = [name |-> "clamp01", applied |-> 0, x |-> x, result |-> NaN, again |-> NaN]

\* clamp01(x)
ApplyClamp ==
    /\ fn.name = "clamp01"
    /\ fn.applied = 0
    /\ fn' = [fn EXCEPT !.applied = 1,
                        !.result = clamp01([t |-> "number", q |-> fn.x, s |-> ""])]
    /\ UNCHANGED <<env, request, pc, sig, body, payload, url, lookup, resolved, price,
                   shares, order, calls, response, now, thrown, previous>>

\* clamp01(clamp01(x))
ApplyClampAgain ==
    /\ fn.name = "clamp01"
    /\ fn.applied = 1
    /\ fn' = [fn EXCEPT !.applied = 2,
                        !.again = clamp01([t |-> "number", q |-> fn.result, s |-> ""])]
    /\ UNCHANGED <<env, request, pc, sig, body, payload, url, lookup, resolved, price,
                   shares, order, calls, response, now, thrown, previous>>

SpecClamp == InitClamp /\ [][ApplyClamp \/ ApplyClampAgain]_vars

(***************************************************************************)
(* timingSafeEqual run step by step: the length check, each turn of the    *)
(* loop, the return                                                        *)
(***************************************************************************)
MaxCompareLen == 3

\* a digit, a lowercase and an uppercase letter
CompareAlphabet == {"0", "a", "A"}

CompareStrings == SeqsUpTo(CompareAlphabet, MaxCompareLen)

InitCompare ==
    /\ env = [HUD_SHARED_SECRET |-> JUndef]
    /\ Idle
    /\ \E a \in CompareStrings : \E b \in CompareStrings :
          fn = [name |-> "timingSafeEqual", at |-> "length", a |-> a, b |-> b,
                i |-> 0, x |-> 0, compared |-> 0, result |-> FALSE]

LoopContinues_ShortCircuit(a, i, x) == i < Len(a) /\ x = 0

\* i < a.length
LoopContinues(a, i, x) == i < Len(a)

\* if (a.length !== b.length) return false; let x = 0; i = 0
CompareLength ==
    /\ fn.name = "timingSafeEqual"
    /\ fn.at = "length"
    /\ fn' = IF Len(fn.a) # Len(fn.b)
             THEN [fn EXCEPT !.at = "done", !.result = FALSE]
             ELSE [fn EXCEPT !.at = "loop", !.i = 0, !.x = 0]
    /\ UNCHANGED <<env, request, pc, sig, body, payload, url, lookup, resolved, price,
                   shares, order, calls, response, now, thrown, previous>>

\* x |= a.charCodeAt(i) ^ b.charCodeAt(i); i++
CompareStep ==
    /\ fn.name = "timingSafeEqual"
    /\ fn.at = "loop"
    /\ LoopContinues(fn.a, fn.i, fn.x)
    /\ fn' = [fn EXCEPT
                !.x = BitOr(@, BitXor(CharCodeOf(fn.a[fn.i + 1]), CharCodeOf(fn.b[fn.i + 1]))),
                !.i = @ + 1,
                !.compared = @ + 1]
    /\ UNCHANGED <<env, request, pc, sig, body, payload, url, lookup, resolved, price,
                   shares, order, calls, response, now, thrown, previous>>

\* return x === 0
CompareReturn ==
    /\ fn.name = "timingSafeEqual"
    /\ fn.at = "loop"
    /\ ~LoopContinues(fn.a, fn.i, fn.x)
    /\ fn' = [fn EXCEPT !.at = "done", !.result = (fn.x = 0)]
    /\ UNCHANGED <<env, request, pc, sig, body, payload, url, lookup, resolved, price,
                   shares, order, calls, response, now, thrown, previous>>

SpecCompare == InitCompare /\ [][CompareLength \/ CompareStep \/ CompareReturn]_vars

(***************************************************************************)
(* Properties                                                              *)
(***************************************************************************)
TradePost == request.path = "/trade" /\ request.method = "POST"

Called(op) == \E i \in 1..Len(calls) : calls[i] = op

CallCount(op) == Cardinality({i \in 1..Len(calls) : calls[i] = op})

\* the metadata lookup and the operations of the exchange client
Downstream == {"fetch", "Wallet", "ClobClient", "createOrDeriveApiKey", "place"}

\* the stages of handleTrade after the validation of the payload
LaterStages == {"resolve", "lookup", "build", "cred", "place"}

\* the header of the request carries sha256=<hex of the HMAC of its body under the
\* configured secret>, the hex digits in either case
SignatureValid ==
    /\ request.signature.present
    /\ StartsWith(request.signature.text, SchemeTag)
    /\ env.HUD_SHARED_SECRET.t = "string"
    /\ env.HUD_SHARED_SECRET.s # ""
    /\ ToLowerCase(Slice(request.signature.text, 7))
          = Signature(env.HUD_SHARED_SECRET.s, request.body)

\* the values JavaScript takes for false among those a payload may carry
FalsyValues == {JUndef, JNull, JNum(0, 1), JStr("")}

\* C1: a POST /trade whose signature does not verify (header missing, no sha256=
\* tag, or HMAC mismatch) never reaches the metadata lookup or the exchange client,
\* whatever its body, and is answered 401.
C1_InvalidSignatureIsolated ==
    (TradePost /\ ~SignatureValid) =>
        /\ \A op \in Downstream : ~Called(op)
        /\ pc \notin LaterStages
        /\ pc = "done" => response.status = 401

C1_Witness ==
    /\ pc = "done"
    /\ TradePost
    /\ ~SignatureValid
    /\ StartsWith(request.signature.text, SchemeTag)
    /\ env.HUD_SHARED_SECRET = JStr(Secrets[1])
    /\ request.body.kind = "malformed"
    /\ response.status = 401

\* C2: when place throws, the response is 502 with ok:false and an error holding
\* the failure text, and place was called once.
C2_PlaceFailureIs502 ==
    /\ CallCount("place") <= 1
    /\ (pc = "done" /\ thrown.by = "place") =>
          /\ response.status = 502
          /\ response.data.ok = JBool(FALSE)
          /\ \E i \in 1..Len(response.data.error) : response.data.error[i] = thrown.message
          /\ CallCount("place") = 1

C2_Witness ==
    /\ pc = "done"
    /\ thrown = Throw("place", "insufficient balance")
    /\ response.status = 502

\* C3: when createOrDeriveApiKey throws, the response is the 502 of a failed
\* submission carrying the failure text, and no order is placed.
C3_CredentialFailureIs502 ==
    (pc = "done" /\ thrown.by = "createOrDeriveApiKey") =>
        /\ response.status = 502
        /\ \E i \in 1..Len(response.data.error) : response.data.error[i] = thrown.message
        /\ ~Called("place")

\* the request passed the signature check and the validation of its payload
Validated ==
    /\ TradePost
    /\ SignatureValid
    /\ request.body.kind = "object"
    /\ request.body.props.side \in {JStr("YES"), JStr("NO")}
    /\ request.body.props.ask \notin FalsyValues
    /\ request.body.props.amountUsd \notin FalsyValues

\* the response is a 400 with ok:false and the given error
Is400(error) ==
    /\ pc = "done"
    /\ response.status = 400
    /\ response.data.ok = JBool(FALSE)
    /\ response.data.error = error

\* C4: a failed resolution (no usable identifier, non-success status, empty or
\* non-list result, no token at the slot, an exception of the lookup) is answered 400
\* with ok:false and the resolver's message, createOrDeriveApiKey and place are not
\* called, and with neither identifier no lookup is issued.
C4_ResolutionFailureIs400 ==
    /\ (lookup.kind \in {"throw", "badjson", "nullrecord"}) =>
          /\ Is400(<<"resolveTokenId error: ", lookup.message>>)
          /\ thrown.message = lookup.message
    /\ (lookup.kind = "status") => Is400(<<"Gamma API ", lookup.message>>)
    /\ (lookup.kind \in {"empty", "nonarray"}) => Is400(<<"No market found">>)
    /\ (lookup.kind = "market" /\ ~resolved.ok) => Is400(<<"Missing tokenId">>)
    /\ (Validated /\ pc = "done"
        /\ request.body.props.conditionId \in FalsyValues
        /\ request.body.props.marketId \in FalsyValues) =>
          /\ Is400(<<"No conditionId/marketId to resolve tokenId">>)
          /\ ~Called("fetch")
    /\ (resolved # NoResolved /\ ~resolved.ok) =>
          /\ Is400(resolved.error)
          /\ \A op \in {"Wallet", "ClobClient", "createOrDeriveApiKey", "place"} : ~Called(op)

C4_Witness ==
    /\ Validated
    /\ lookup.kind = "empty"
    /\ Is400(<<"No market found">>)
    /\ Called("fetch")

\* C5: a correctly signed POST /trade whose body is a JSON object with side,
\* amountUsd or ask missing or falsy (0 included), or with side other than "YES" and
\* "NO", is answered 400 and reaches neither the lookup nor the exchange client.
C5_InvalidPayloadIs400 ==
    (/\ TradePost
     /\ SignatureValid
     /\ request.body.kind = "object"
     /\ \/ request.body.props.side \in FalsyValues
        \/ request.body.props.amountUsd \in FalsyValues
        \/ request.body.props.ask \in FalsyValues
        \/ request.body.props.side \notin {JStr("YES"), JStr("NO")}) =>
        /\ \A op \in Downstream : ~Called(op)
        /\ pc \notin LaterStages
        /\ pc = "done" => response.status = 400

C5_Witness ==
    /\ pc = "done"
    /\ TradePost
    /\ SignatureValid
    /\ request.body.kind = "object"
    /\ request.body.props.side = JStr("YES")
    /\ request.body.props.ask = JNum(1, 2)
    /\ request.body.props.amountUsd = JNum(0, 1)
    /\ response.status = 400

\* C7: every order handed to place has a price within [0,1] and a size above 0.
C7_OrderWithinBounds ==
    Called("place") =>
        /\ IsFinite(order.price)
        /\ ~NumLess(order.price, Q(0, 1))
        /\ ~NumLess(Q(1, 1), order.price)
        /\ NumLess(Q(0, 1), order.size)

\* C8: every response is a JSON envelope with a boolean ok, and every error
\* response has ok:false and an error.
C8_EveryResponseIsEnvelope ==
    pc = "done" =>
        /\ response.contentType = "application/json"
        /\ response.data.ok.t = "boolean"
        /\ response.status >= 400 =>
              (response.data.ok = JBool(FALSE) /\ response.data.error # <<>>)

\* C10: with the secret absent or empty every POST /trade is answered 401; with the
\* header missing or without the sha256= tag it is answered 401 before the body is
\* read and before any HMAC computation.
C10_FailsClosed ==
    /\ (TradePost /\ env.HUD_SHARED_SECRET \in {JUndef, JStr("")}) =>
          /\ pc \notin {"parse"} \cup LaterStages
          /\ pc = "done" => response.status = 401
    /\ (TradePost /\ (~request.signature.present
                      \/ ~StartsWith(request.signature.text, SchemeTag))) =>
          /\ calls = <<>>
          /\ body = NoBody
          /\ pc \in {"route", "auth", "done"}
          /\ pc = "done" => response.status = 401

C10_Witness ==
    /\ pc = "done"
    /\ TradePost
    /\ env.HUD_SHARED_SECRET = JStr("")
    /\ request.signature = Header(SchemeTag \o Signature("", request.body))
    /\ Called("request.text")
    /\ response.status = 401

\* the names a side accepts
AcceptedNames(side) ==
    IF side = JStr("YES")
    THEN {<<"U", "p">>, <<"Y", "e", "s">>, <<"Y", "E", "S">>}
    ELSE {<<"D", "o", "w", "n">>, <<"N", "o">>, <<"N", "O">>}

\* name is an accepted name of the side with white space around it
NamesSide(name, side) ==
    \E w \in AcceptedNames(side) : \E i \in 1..Len(name) :
        /\ i + Len(w) - 1 <= Len(name)
        /\ SubSeq(name, i, i + Len(w) - 1) = w
        /\ \A k \in 1..Len(name) : (k < i \/ k > i + Len(w) - 1) => name[k] \in {" ", "\t"}

\* the slot (0-based) the resolver is to select in descriptor m for the side
ExpectedSlot(m, side) ==
    LET hits == {i \in 1..Len(m.outcomes) : m.hasOutcomes /\ NamesSide(m.outcomes[i], side)}
    IN  IF hits # {} THEN (CHOOSE i \in hits : \A k \in hits : i <= k) - 1
        ELSE IF side = JStr("YES") THEN 0 ELSE 1

\* the token identifier of slot k of descriptor m, JUndef when it has none
ExpectedToken(m, k) ==
    IF ~m.hasTokens \/ k + 1 > Len(m.tokens) THEN JUndef
    ELSE IF m.tokens[k + 1].isNull THEN JUndef
    ELSE IF m.tokens[k + 1].token_id \notin FalsyValues THEN m.tokens[k + 1].token_id
    ELSE IF m.tokens[k + 1].tokenId \notin FalsyValues THEN m.tokens[k + 1].tokenId
    ELSE JUndef

YesNoMarket ==
    Market(TRUE, <<<<"Y", "e", "s">>, <<"N", "o">>>>, TRUE,
           <<MakeToken("snake", 1), MakeToken("snake", 2)>>, TRUE, <<>>)

\* C6: the resolver selects the first outcome whose trimmed name the side accepts,
\* else slot 0 for YES and 1 for NO, and returns the token identifier of that slot,
\* failing with "Missing tokenId" when the slot has none; outcomes Yes,No with
\* tokens A,B give A for YES and B for NO.
C6_SlotSelection ==
    (fn.name = "resolveTokenId" /\ fn.done) =>
        LET token == ExpectedToken(fn.market, ExpectedSlot(fn.market, fn.side))
        IN  /\ IF token # JUndef
               THEN fn.result.ok /\ fn.result.tokenId = token
               ELSE ~fn.result.ok /\ fn.result.error = <<"Missing tokenId">>
            /\ (fn.market = YesNoMarket) =>
                  fn.result.tokenId = (IF fn.side = JStr("YES") THEN JStr("A") ELSE JStr("B"))

C6_Witness ==
    /\ fn.name = "resolveTokenId"
    /\ fn.done
    /\ fn.side = JStr("NO")
    /\ fn.market.outcomes = <<<<"O", "t", "h", "e", "r">>, <<"y", "e", "s">>>>
    /\ fn.result.ok
    /\ fn.result.tokenId = JStr("B")

\* a and b have the same length and differ at exactly one position
OneCharacterApart(a, b) ==
    /\ Len(a) = Len(b)
    /\ Cardinality({i \in 1..Len(a) : a[i] # b[i]}) = 1

\* a and b have the same length and differ somewhere otherwise than in letter case
ApartBeyondCase(a, b) ==
    /\ Len(a) = Len(b)
    /\ \E i \in 1..Len(a) : a[i] # b[i] /\ ToUpperCase(a)[i] # ToUpperCase(b)[i]

\* C9 as stated: verifyHmac(S, B, hmac(S,B)) is true for every secret S and body B,
\* and false for every one-character change of the signature and for every other body.
C9_VerificationExact ==
    (fn.name = "verifyHmac" /\ fn.done) =>
        LET good == Signature(fn.secret.s, fn.message)
        IN  /\ fn.hexSig = good => fn.result
            /\ OneCharacterApart(fn.hexSig, good) => ~fn.result
            /\ (\E b \in VerifyMessages : b # fn.message /\ fn.hexSig = Signature(fn.secret.s, b))
                  => ~fn.result

\* C9 amended: true for every non-empty secret S and body B; false for every
\* one-character change of the signature that is not a change of letter case, and
\* for every other body.
C9_VerificationExactAmended ==
    (fn.name = "verifyHmac" /\ fn.done) =>
        LET good == Signature(fn.secret.s, fn.message)
        IN  /\ (fn.secret.s # "" /\ fn.hexSig = good) => fn.result
            /\ (OneCharacterApart(fn.hexSig, good) /\ ApartBeyondCase(fn.hexSig, good))
                  => ~fn.result
            /\ (\E b \in VerifyMessages : b # fn.message /\ fn.hexSig = Signature(fn.secret.s, b))
                  => ~fn.result

\* a signature with a byte below 16 (a leading zero digit) is verified
C9_Witness ==
    /\ fn.name = "verifyHmac"
    /\ fn.done
    /\ fn.secret.s # ""
    /\ fn.hexSig = Signature(fn.secret.s, fn.message)
    /\ \E i \in 1..DigestBytes : HmacSign(fn.secret.s, fn.message)[i] < 16
    /\ fn.result

\* the slippage of a payload: 0.01 when the key is absent, else its number
RefSlippage(props) ==
    IF props.slippage = JUndef THEN Q(1, 100) ELSE ToNumber(props.slippage)

\* x held within [0, 1], NaN when x is not finite
RefClamp(x) ==
    IF ~IsFinite(x) THEN NaN
    ELSE IF NumLess(x, Q(0, 1)) THEN Q(0, 1)
    ELSE IF NumLess(Q(1, 1), x) THEN Q(1, 1)
    ELSE x

RefPrice(props) ==
    RefClamp(NumMul(ToNumber(props.ask), NumAdd(Q(1, 1), RefSlippage(props))))

RefSize(props) == NumDiv(ToNumber(props.amountUsd), RefPrice(props))

\* C11: on the success path the order handed to place has the resolver's tokenId,
\* side 0 for YES and 1 for NO, price clamp01(ask * (1 + slippage)), size
\* amountUsd / price, time_in_force "IOC" and post_only false; the 200 response has
\* ok:true, the acknowledgement as order, fills.sharesBought = order.size,
\* fills.avgPrice = order.price, fills.costUsd = size * price, each as JSON renders
\* it, and meta.tokenId = order.token_id.
C11_SuccessIsReference ==
    (TradePost /\ pc = "done" /\ response.status = 200) =>
        LET p == request.body.props
        IN  /\ resolved.ok
            /\ order.token_id = resolved.tokenId
            /\ p.side \in {JStr("YES"), JStr("NO")}
            /\ order.side = (IF p.side = JStr("YES") THEN 0 ELSE 1)
            /\ order.price = RefPrice(p)
            /\ order.size = RefSize(p)
            /\ order.time_in_force = "IOC"
            /\ order.post_only = FALSE
            /\ calls[Len(calls)] = "place"
            /\ response.contentType = "application/json"
            /\ response.data.ok = JBool(TRUE)
            /\ response.data.error = <<>>
            /\ response.data.order \in Acks
            /\ response.data.fills.sharesBought = StringifyNum(order.size)
            /\ response.data.fills.avgPrice = StringifyNum(order.price)
            /\ response.data.fills.costUsd = StringifyNum(NumMul(order.size, order.price))
            /\ response.data.meta.tokenId = order.token_id

\* ask 0.5, slippage 0.02, amountUsd 100: price 0.51, shares 100 / 0.51
C11_Witness ==
    /\ pc = "done"
    /\ response.status = 200
    /\ request.body.props.ask = JNum(1, 2)
    /\ request.body.props.slippage = JNum(1, 50)
    /\ request.body.props.amountUsd = JNum(100, 1)
    /\ request.body.props.side = JStr("NO")
    /\ order.price = Q(51, 100)
    /\ order.size = Q(10000, 51)
    /\ order.side = 1
    /\ response.data.fills.costUsd = StringifyNum(Q(100, 1))

\* C12: when the slippage of the payload is absent or falsy (undefined, null, 0, "",
\* false) the slippage used is 0.01: the price is clamp01(ask * 1.01).
C12_FalsySlippageIsDefault ==
    (fn.name = "price" /\ fn.done /\ ~Truthy(fn.props.slippage)) =>
        fn.price = RefClamp(NumMul(ToNumber(fn.props.ask), Q(101, 100)))

\* C12 amended: when the slippage is absent the slippage used is 0.01 and the price
\* is clamp01(ask * 1.01); when it is present and falsy (null, 0, "", false) the
\* slippage used is 0 and the price is clamp01(ask).
C12_AbsentSlippageIsDefault ==
    (fn.name = "price" /\ fn.done /\ ~Truthy(fn.props.slippage)) =>
        IF fn.props.slippage = JUndef
        THEN fn.price = RefClamp(NumMul(ToNumber(fn.props.ask), Q(101, 100)))
        ELSE fn.price = RefClamp(ToNumber(fn.props.ask))

\* slippage false with ask 0.5: the price is 0.5
C12_Witness ==
    /\ fn.name = "price"
    /\ fn.done
    /\ fn.props.ask = JNum(1, 2)
    /\ fn.props.slippage = JBool(FALSE)
    /\ fn.price = Q(1, 2)

\* C13: the client_order_id of an order is unique per request: any two orders
\* handed to place, also within one reading of the clock, carry different
\* identifiers.
C13_OrderIdsUnique ==
    (previous.order # NoOrder /\ order # NoOrder) =>
        order.client_order_id # previous.order.client_order_id

\* what the collaborators answered in the run that led to this state
RunOutcomes ==
    [clock |-> now,
     lookup |-> lookup,
     wallet |-> IF thrown.by = "Wallet" THEN thrown.message ELSE "",
     cred |-> IF thrown.by = "createOrDeriveApiKey" THEN thrown.message ELSE "",
     place |-> [threw |-> thrown.by = "place",
                message |-> IF thrown.by = "place" THEN thrown.message ELSE "",
                ack |-> IF thrown.by = "JSON.stringify"
                        THEN CHOOSE a \in Acks : ~Serialisable(a)
                        ELSE response.data.order]]

\* C14: the two implementations are functionally identical: for every request,
\* configuration and collaborator answers the second makes the same calls with the
\* same arguments and gives the same response as the first.
C14_SameAsSecondImplementation ==
    (pc = "done") =>
        Part000_fetch(env, request, RunOutcomes)
            = Part000_Answer(calls, url, order, response)

\* the places of op in the calls of the request
Positions(op) == {i \in 1..Len(calls) : calls[i] = op}

\* every call of first comes before every call of second
Before(first, second) ==
    \A i \in Positions(first) : \A k \in Positions(second) : i < k

\* C15: within one request the lookup is issued at most once and only after the
\* signature verified and the payload passed validation; createOrDeriveApiKey is
\* called at most once, only after a successful resolution, and exactly once in a
\* request that reaches place; place is called at most once and only after
\* createOrDeriveApiKey has returned without throwing.
C15_CallOrder ==
    /\ CallCount("fetch") <= 1
    /\ Called("fetch") =>
          /\ Validated
          /\ Called("crypto.subtle.sign")
          /\ Before("crypto.subtle.sign", "fetch")
    /\ CallCount("createOrDeriveApiKey") <= 1
    /\ Called("createOrDeriveApiKey") =>
          /\ resolved.ok
          /\ Called("fetch")
          /\ Before("fetch", "createOrDeriveApiKey")
    /\ CallCount("place") <= 1
    /\ Called("place") =>
          /\ CallCount("createOrDeriveApiKey") = 1
          /\ Before("createOrDeriveApiKey", "place")
          /\ thrown.by # "createOrDeriveApiKey"
          /\ resolved.ok
    /\ pc = "place" => Called("place")
    /\ thrown.by = "createOrDeriveApiKey" => ~Called("place")

C15_Witness ==
    /\ pc = "done"
    /\ response.status = 200
    /\ calls = <<"request.text", "crypto.subtle.importKey", "crypto.subtle.sign",
                 "fetch", "Wallet", "ClobClient", "createOrDeriveApiKey", "place">>

\* what a collaborator answered in a run: "unasked" when the run did not call it
Answered(run) ==
    LET asked(op) == \E i \in 1..Len(run.calls) : run.calls[i] = op
    IN  [wallet |-> IF ~asked("Wallet") THEN <<"unasked">>
                    ELSE IF run.thrown.by = "Wallet" THEN <<"throw", run.thrown.message>>
                    ELSE <<"ok">>,
         cred |-> IF ~asked("createOrDeriveApiKey") THEN <<"unasked">>
                  ELSE IF run.thrown.by = "createOrDeriveApiKey"
                  THEN <<"throw", run.thrown.message>>
                  ELSE <<"ok">>,
         place |-> IF ~asked("place") THEN <<"unasked">>
                   ELSE IF run.thrown.by = "place" THEN <<"throw", run.thrown.message>>
                   ELSE IF run.thrown.by = "JSON.stringify" THEN <<"ok", "bigint">>
                   ELSE <<"ok", run.response.data.order>>]

\* the run of the request being served
ThisRun ==
    [request |-> request, lookup |-> lookup, thrown |-> thrown, url |-> url,
     calls |-> calls, resolved |-> resolved, order |-> order, response |-> response]

\* the two lookup answers are the same but for the best_ask of the descriptor
SameButBestAsk(r1, r2) ==
    [r1 EXCEPT !.market.hasBestAsk = FALSE, !.market.best_ask = <<>>]
        = [r2 EXCEPT !.market.hasBestAsk = FALSE, !.market.best_ask = <<>>]

\* the request served before and this one are two runs of handleTrade on the same
\* request and the same collaborator answers, the best_ask of the descriptor apart
TwoRunsButBestAsk ==
    /\ pc = "done"
    /\ TradePost
    /\ previous # NoPrevious
    /\ request = previous.request
    /\ SameButBestAsk(lookup, previous.lookup)
    /\ \A c \in {"wallet", "cred", "place"} :
          \/ Answered(ThisRun)[c] = Answered(previous)[c]
          \/ <<"unasked">> \in {Answered(ThisRun)[c], Answered(previous)[c]}

\* C16: two runs that differ only in the best_ask of the descriptor make the same
\* calls, hand place the same order (token_id, price, size, side) and give the same
\* status, fields and fills; only meta.priceFromBook differs, and when present it
\* is the best_ask at the slot of the selected token, held within [0, 1].
C16_BestAskIsAdvisory ==
    /\ TwoRunsButBestAsk =>
          /\ calls = previous.calls
          /\ url = previous.url
          /\ order.token_id = previous.order.token_id
          /\ order.price = previous.order.price
          /\ order.size = previous.order.size
          /\ order.side = previous.order.side
          /\ response.status = previous.response.status
          /\ response.data.fills = previous.response.data.fills
          /\ [response.data EXCEPT !.meta.priceFromBook = JUndef]
                = [previous.response.data EXCEPT !.meta.priceFromBook = JUndef]
    /\ (pc = "done" /\ TradePost /\ response.status = 200
        /\ response.data.meta.priceFromBook # JUndef) =>
          LET m == lookup.market
              k == ExpectedSlot(m, request.body.props.side)
          IN  /\ order.token_id = ExpectedToken(m, k)
              /\ m.hasBestAsk
              /\ k + 1 <= Len(m.best_ask)
              /\ m.best_ask[k + 1].t = "number"
              /\ response.data.meta.priceFromBook.t = "number"
              /\ response.data.meta.priceFromBook.q = RefClamp(m.best_ask[k + 1].q)

\* the same request once with best_ask [0.6, 1.5] and once with [-0.25]: both
\* answered 200 with the same fills, priceFromBook 0.6 and 0
C16_Witness ==
    /\ TwoRunsButBestAsk
    /\ response.status = 200
    /\ request.body.props.side = JStr("YES")
    /\ previous.lookup.market.best_ask = <<JNum(3, 5), JNum(3, 2)>>
    /\ lookup.market.best_ask = <<JNum(-1, 4)>>
    /\ previous.response.data.meta.priceFromBook = JNum(3, 5)
    /\ response.data.meta.priceFromBook = JNum(0, 1)
    /\ response.data.fills = previous.response.data.fills

\* x <= y on finite numbers
FiniteLeq(x, y) == x.n * y.d <= y.n * x.d

\* C17: clamp01 returns its input when it lies in [0, 1], 0 when it is below 0, 1
\* when it is above 1 and NaN when it is not finite; clamp01(clamp01(x)) =
\* clamp01(x) for every finite x.
C17_ClampCases ==
    (fn.name = "clamp01" /\ fn.applied >= 1) =>
        /\ (IsFinite(fn.x) /\ FiniteLeq(Q(0, 1), fn.x) /\ FiniteLeq(fn.x, Q(1, 1)))
              => fn.result = fn.x
        /\ (IsFinite(fn.x) /\ ~FiniteLeq(Q(0, 1), fn.x)) => fn.result = Q(0, 1)
        /\ (IsFinite(fn.x) /\ ~FiniteLeq(fn.x, Q(1, 1))) => fn.result = Q(1, 1)
        /\ ~IsFinite(fn.x) => IsNaN(fn.result)
        /\ (fn.applied = 2 /\ IsFinite(fn.x)) => fn.again = fn.result

\* 7/5 is clamped to 1, and 1 stays 1
C17_Witness ==
    /\ fn.name = "clamp01"
    /\ fn.applied = 2
    /\ fn.x = Q(7, 5)
    /\ fn.result = Q(1, 1)
    /\ fn.again = Q(1, 1)

\* C18: timingSafeEqual returns false on strings of different length without
\* comparing a character; on strings of equal length n it compares exactly n
\* characters wherever the first mismatch is, and returns true exactly when the
\* strings are equal.
C18_LengthFirstFullScan ==
    (fn.name = "timingSafeEqual" /\ fn.at = "done") =>
        /\ Len(fn.a) # Len(fn.b) => (fn.compared = 0 /\ ~fn.result)
        /\ Len(fn.a) = Len(fn.b) =>
              /\ fn.compared = Len(fn.a)
              /\ fn.result <=> (fn.a = fn.b)
        /\ fn.result <=> timingSafeEqual(fn.a, fn.b)

\* a mismatch at the first of three characters: three comparisons, false
C18_Witness ==
    /\ fn.name = "timingSafeEqual"
    /\ fn.at = "done"
    /\ fn.a = <<"a", "0", "0">>
    /\ fn.b = <<"A", "0", "0">>
    /\ fn.compared = 3
    /\ ~fn.result

\* the body parses to an object with truthy side, amountUsd and ask
UsableBody ==
    /\ request.body.kind = "object"
    /\ Truthy(request.body.props.side)
    /\ Truthy(request.body.props.amountUsd)
    /\ Truthy(request.body.props.ask)

\* C19: a correctly signed POST /trade whose body is unparseable, or parses to a
\* value (object, array, string, number, null) lacking a truthy side, amountUsd or
\* ask, is answered 400 by the validation, never 500.
C19_UnusableBodyIs400 ==
    (pc = "done" /\ TradePost /\ SignatureValid /\ ~UsableBody) =>
        /\ response.status = 400
        /\ response.data.ok = JBool(FALSE)
        /\ \A op \in Downstream : ~Called(op)

\* the exceptions no stage of handleTrade catches
Untranslated == {"destructure", "Wallet", "createOrDeriveApiKey"}

\* C20: whatever the request and whichever collaborators throw, once every call
\* is answered the fetch handler gives a response, gives it once, and lets no
\* exception out; an exception no stage catches is answered 500 with ok:false and
\* the message as error.
C20_NoFaultEscapes ==
    /\ (pc = "route") ~> (pc = "done")
    /\ [](pc = "done" <=> response # NoResponse)
    /\ [][pc = "done" => response' = response]_vars
    /\ []((pc = "done" /\ thrown # NoThrow) =>
            /\ response.contentType = "application/json"
            /\ response.data.ok = JBool(FALSE)
            /\ response.data.error # <<>>
            /\ response.status \in {400, 500, 502})
    /\ []((pc = "done" /\ thrown.by \in Untranslated) =>
            /\ response.status = 500
            /\ response.data.error = <<thrown.message>>)

\* new Wallet throws on the key: answered 500 with its message
C20_Witness ==
    /\ pc = "done"
    /\ thrown = Throw("Wallet", "invalid private key")
    /\ response.status = 500
    /\ response.data.ok = JBool(FALSE)
    /\ response.data.error = <<"invalid private key">>

====
